---- MODULE Spec2Model ----
(***************************************************************************)
(* Model of the TacoCat scoring engine: the event dispatcher and the       *)
(* handlers of src/src/events.js, the per-user rate limiter                *)
(* (checkCanUpdate) and the score store (updateScore, getScore) of the     *)
(* points module (src/unnamed/part_000), and the message composer          *)
(* (getRandomMessage) of src/src/messages.js.                              *)
(*                                                                         *)
(* Every handlePlusMinus invocation is an asynchronous task.  A task       *)
(* yields at each database query; between two yields its code runs         *)
(* without interruption.  One action models either the execution of one    *)
(* query by the database or one uninterrupted run of JavaScript.           *)
(***************************************************************************)
EXTENDS Integers, Sequences, FiniteSets, Bags, TLC

VARIABLES usertracker, scores, temps, now, ticks, tasks, sent, nevents,
          returned, composer

vars ==
    <<usertracker, scores, temps, now, ticks, tasks, sent, nevents, returned,
      composer>>

-----------------------------------------------------------------------------
(* Bounds of the model.                                                    *)

MaxTasks == 3

MaxEvents == 2

MaxSeqEvents == 3

MaxTicks == 1

MaxSeqTicks == 2

MaxMentions == 2

MaxQuantity == 2

MaxPoints == 2

MaxRawEvents == 2

MaxFaultEvents == 2

MaxParsedEvents == 2

(* Math.random() is a multiple of 1/SetDraws when a pool is drawn and of   *)
(* 1/MessageDraws when a string is drawn; scores up to MaxScore.           *)
SetDraws == 101

MessageDraws == 43

MaxScore == 2

(* Program constants.                                                      *)

MAX_OPS == 2

WINDOW == 3600

PRIVILEGED == "ULJ7NNS8H"

Users == {"UA", PRIVILEGED}

Items == {"UA", PRIVILEGED}

(* The names an item goes by in the events that reach handleEvent: those   *)
(* of Items, and one of them in other letter case.                         *)
Names == Items \cup {"ua"}

(* The clock steps of the two specifications: a whole window, and the      *)
(* steps that reach the last second of a window and the first after it.    *)
WindowTicks == {WINDOW}

EdgeTicks == {1, WINDOW - 1}

-----------------------------------------------------------------------------
(* The tables.  Both are keyed by a CITEXT primary key: two names that     *)
(* differ only in letter case are the same key.  A table is a function     *)
(* from the folded keys that have a row to the row's other columns.        *)

CiKeyCaseSensitive(name) == name

CiKey(name) ==
    CASE name = "UA" -> "ua"
      [] name = "UB" -> "ub"
      [] name = "ULJ7NNS8H" -> "ulj7nns8h"
      [] OTHER -> name

(* SELECT ... WHERE key = name : the rows array of the result.             *)
SelectRows(table, name) ==
    IF CiKey(name) \in DOMAIN table THEN <<table[CiKey(name)]>> ELSE <<>>

(* The row in conflict with an INSERT of name: what the SET clause of the  *)
(* statement reads its old column values from.                             *)
ConflictRow(table, name) == table[CiKey(name)]

(* INSERT ... VALUES (name, ins) ON CONFLICT (key) DO UPDATE SET <upd>,    *)
(* upd being the row that the SET clause makes of ConflictRow.             *)
Upsert(table, name, ins, upd) ==
    IF CiKey(name) \in DOMAIN table
    THEN [table EXCEPT ![CiKey(name)] = upd]
    ELSE (CiKey(name) :> ins) @@ table

-----------------------------------------------------------------------------
(* The score store.                                                        *)

DeltaReversed(operation) == IF operation = "+" THEN -1 ELSE 1

Delta(operation) == IF operation = "+" THEN 1 ELSE -1

UpdateScoreOverwrite(table, item, operation) ==
    Upsert(table, item, Delta(operation), Delta(operation))

(* updateScore's INSERT: a new item starts at operation 1, an existing one *)
(* moves by operation 1, in one statement.  The quantity that              *)
(* handlePlusMinus passes as a third argument is not a parameter of        *)
(* updateScore.                                                            *)
UpdateScoreQuery(table, item, operation) ==
    Upsert(table, item, Delta(operation),
           ConflictRow(table, item) + Delta(operation))

(* The era ("temp") score of a row.  The points module that keeps it is    *)
(* not among the sources; by the specification of the score store it is a  *)
(* second column of the row, created with the row and moved by the         *)
(* statement that moves the score, by the same amount.                     *)
UpdateTempQuery(table, item, operation) ==
    Upsert(table, item, Delta(operation),
           ConflictRow(table, item) + Delta(operation))

-----------------------------------------------------------------------------
(* Tasks and replies.                                                      *)

(* query is the writing query that checkCanUpdate has built and not yet    *)
(* seen executed; overwrote records, until checkCanUpdate returns true,    *)
(* that its INSERT of a fresh row met an existing row and changed the      *)
(* count or the window start of it.                                        *)
NoQuery == [operations |-> -1, ts |-> -1]

NewTask(ev, user, item, operation, quantity) ==
    [ev |-> ev, user |-> user, item |-> item, operation |-> operation,
     quantity |-> quantity, pc |-> "select", dbSelect |-> <<>>,
     query |-> NoQuery, overwrote |-> FALSE, check |-> "none"]

Reply(kind, ev, cmd, user, item, score, thread) ==
    [kind |-> kind, ev |-> ev, cmd |-> cmd, user |-> user, item |-> item,
     score |-> score, thread |-> thread]

(* What the last call of handleEvent returned (false, true, or the promise *)
(* of a handler) and the warning it logged.                                *)
Returned(value, warning) == [value |-> value, warning |-> warning]

TaskIds == 1 .. Len(tasks)

SetTask(t, fields) == [tasks EXCEPT ![t] = fields @@ @]

Send(reply) == sent (+) SetToBag({reply})

-----------------------------------------------------------------------------
(* The rate limiter: checkCanUpdate.                                       *)

WindowOpenInclusive(nowSeconds, userTS) == nowSeconds - userTS <= WINDOW

(* Line 248: the stored window is still running.                           *)
WindowOpen(nowSeconds, userTS) == nowSeconds - userTS < WINDOW

LimitReachedOffByOne(userOperations) == userOperations > MAX_OPS

(* Line 249: the quota of the window is used up.                           *)
LimitReached(userOperations) == userOperations >= MAX_OPS

(* Lines 229-231: the database executes the SELECT of the user's row.      *)
CheckSelect(t) ==
    /\ tasks[t].pc = "select"
    /\ tasks' = SetTask(t, [pc |-> "selected",
                            dbSelect |-> SelectRows(usertracker, tasks[t].user)])
    /\ UNCHANGED <<usertracker, scores, temps, now, ticks, sent, nevents,
                   returned, composer>>

(* Lines 238-240: the database executes the second SELECT.                 *)
CheckReselect(t) ==
    /\ tasks[t].pc = "reselect"
    /\ tasks' = SetTask(t, [pc |-> "reselected",
                            dbSelect |-> SelectRows(usertracker, tasks[t].user)])
    /\ UNCHANGED <<usertracker, scores, temps, now, ticks, sent, nevents,
                   returned, composer>>

(* handlePlusMinus, lines 58-62 of events.js: the reply to a denied        *)
(* command names the acting user and is not threaded.                      *)
LimitReply(t) ==
    Reply("limit", tasks[t].ev, t, tasks[t].user, tasks[t].item, <<>>, 0)

HandlePlusMinusAlways(check) == "upsert"

(* handlePlusMinus, line 50 of events.js: where the task goes when         *)
(* checkCanUpdate has returned check.                                      *)
HandlePlusMinusBranch(check) == IF check THEN "upsert" ELSE "done"

(* The JavaScript that runs when a SELECT has returned.  After the first   *)
(* SELECT with no row (line 233) it builds the INSERT of a fresh row with  *)
(* the current time.  Otherwise (lines 244-270) it reads the row and       *)
(* either returns false, upon which handlePlusMinus sends the              *)
(* quota-exceeded message, or builds the query that consumes one unit.     *)
CheckDecide(t) ==
    /\ tasks[t].pc \in {"selected", "reselected"}
    /\ IF tasks[t].pc = "selected" /\ Len(tasks[t].dbSelect) < 1
       THEN /\ tasks' = SetTask(t, [pc |-> "insert",
                                    query |-> [operations |-> 0, ts |-> now]])
            /\ UNCHANGED sent
       ELSE LET userOperations == tasks[t].dbSelect[1].operations
                userTS == tasks[t].dbSelect[1].ts
            IN IF WindowOpen(now, userTS)
               THEN IF LimitReached(userOperations)
                    THEN /\ tasks' = SetTask(t, [pc |-> HandlePlusMinusBranch(FALSE),
                                                     check |-> "false",
                                                     dbSelect |-> <<>>,
                                                     query |-> NoQuery])
                         /\ sent' = IF HandlePlusMinusBranch(FALSE) = "done"
                                    THEN Send(LimitReply(t))
                                    ELSE sent
                    ELSE /\ tasks' = SetTask(t,
                              [pc |-> "write_inc",
                               query |-> [operations |-> userOperations + 1,
                                          ts |-> userTS]])
                         /\ UNCHANGED sent
               ELSE /\ tasks' = SetTask(t, [pc |-> "write_reset",
                                            query |-> [operations |-> 1, ts |-> now]])
                    /\ UNCHANGED sent
    /\ UNCHANGED <<usertracker, scores, temps, now, ticks, nevents, returned,
                   composer>>

(* Lines 234-237: the database executes the INSERT of the fresh row; a row *)
(* that another task inserted meanwhile is overwritten.                    *)
CheckInsert(t) ==
    /\ tasks[t].pc = "insert"
    /\ usertracker' = Upsert(usertracker, tasks[t].user, tasks[t].query,
                             tasks[t].query)
    /\ tasks' = SetTask(t, [pc |-> "reselect",
                            overwrote |->
                                /\ CiKey(tasks[t].user) \in DOMAIN usertracker
                                /\ usertracker[CiKey(tasks[t].user)] # tasks[t].query])
    /\ UNCHANGED <<scores, temps, now, ticks, sent, nevents, returned, composer>>

(* Lines 254-257: operations = userOperations + 1 on the existing row, the *)
(* value computed from the row as it was read.                             *)
ConsumeQuery(table, user, query) ==
    Upsert(table, user, [operations |-> 1, ts |-> query.ts],
           [ConflictRow(table, user) EXCEPT !.operations = query.operations])

(* Lines 263-266: a new window starts with this operation.                 *)
ResetQuery(table, user, query) ==
    Upsert(table, user, query, query)

(* The database executes the consuming query; checkCanUpdate returns true, *)
(* its locals are gone, and handlePlusMinus (lines 50-53) calls            *)
(* updateScore.                                                            *)
CheckWrite(t) ==
    /\ tasks[t].pc \in {"write_inc", "write_reset"}
    /\ usertracker' = IF tasks[t].pc = "write_inc"
                      THEN ConsumeQuery(usertracker, tasks[t].user, tasks[t].query)
                      ELSE ResetQuery(usertracker, tasks[t].user, tasks[t].query)
    /\ tasks' = SetTask(t, [pc |-> HandlePlusMinusBranch(TRUE), check |-> "true",
                            dbSelect |-> <<>>, query |-> NoQuery,
                            overwrote |-> FALSE])
    /\ UNCHANGED <<scores, temps, now, ticks, sent, nevents, returned, composer>>

-----------------------------------------------------------------------------
(* updateScore and the reply of handlePlusMinus.                           *)

(* Lines 80-83: the database executes the upsert of the score.  The       *)
(* statement is valid SQL only for an operation that is an arithmetic      *)
(* sign.  The era score of the row moves in the same statement.            *)
UpdateUpsert(t) ==
    /\ tasks[t].pc = "upsert"
    /\ tasks[t].operation \in {"+", "-"}
    /\ scores' = UpdateScoreQuery(scores, tasks[t].item, tasks[t].operation)
    /\ temps' = UpdateTempQuery(temps, tasks[t].item, tasks[t].operation)
    /\ tasks' = SetTask(t, [pc |-> "score_select"])
    /\ UNCHANGED <<usertracker, now, ticks, sent, nevents, returned, composer>>

OperationName(operation) == IF operation = "+" THEN "plus" ELSE "minus"

SuccessThreadNone(t) == 0

(* Line 56: sendThreadMessage( message, channel, ts ), ts being the        *)
(* timestamp of the message of the command; 0 is no thread.                *)
SuccessThread(t) == tasks[t].ev

(* Lines 87-95: the database executes the SELECT of the new score, which   *)
(* updateScore returns; handlePlusMinus (lines 54-56) reads score[0] and   *)
(* score[1] of it, the score and the era score of the row, and sends the   *)
(* reply in the thread of the message.                                     *)
UpdateSelect(t) ==
    /\ tasks[t].pc = "score_select"
    /\ LET score == <<SelectRows(scores, tasks[t].item)[1],
                      SelectRows(temps, tasks[t].item)[1]>>
       IN /\ tasks' = SetTask(t, [pc |-> "done"])
          /\ sent' = Send(Reply(OperationName(tasks[t].operation),
                                  tasks[t].ev, t, tasks[t].user,
                                  tasks[t].item, score, SuccessThread(t)))
    /\ UNCHANGED <<usertracker, scores, temps, now, ticks, nevents, returned,
                   composer>>

-----------------------------------------------------------------------------
(* The message handler of the dispatcher.                                  *)

ItemSeqs == UNION {[1 .. n -> Items] : n \in 1 .. MaxMentions}

(* A message event with the data that extractPlusMinusEventData returns    *)
(* for its text.                                                           *)
Events ==
    {event \in [user : Users, items : ItemSeqs, quantity : 1 .. MaxQuantity,
                cats : 0 .. 1] :
        Len(event.items) * event.quantity <= MaxPoints}

EventData(event) ==
    [i \in 1 .. Len(event.items) |->
        [item |-> event.items[i], quantity |-> event.quantity, cats |-> event.cats]]

(* handleSelfPlus: the reply to a user who credits themself.               *)
SelfReply(ev, i, user) == Reply("self", ev, -i, user, user, <<>>, 0)

IsSelfNever(item, user) == FALSE

(* Line 244: the target is the acting user.                                *)
IsSelf(item, user) == item = user

(* Lines 236-255: the loop over the parsed entries.  handlePlusMinus is    *)
(* called and not awaited: each call runs up to its first database query   *)
(* and the loop goes on.                                                   *)
RECURSIVE MessageLoop(_, _, _, _, _, _)
MessageLoop(event, ev, data, i, tks, snt) ==
    IF i > Len(data)
    THEN [tasks |-> tks, sent |-> snt, result |-> TRUE]
    ELSE LET d == data[i]
             plus == Append(tks, NewTask(ev, event.user, d.item, "+", d.quantity))
             minus == IF d.cats > 0 /\ event.user = PRIVILEGED
                      THEN Append(plus, NewTask(ev, event.user, d.item, "-", d.cats))
                      ELSE plus
         IN IF d.item = "" \/ d.quantity = 0
            THEN [tasks |-> tks, sent |-> snt, result |-> FALSE]
            ELSE IF IsSelf(d.item, event.user)
                 THEN MessageLoop(event, ev, data, i + 1, tks,
                                  snt (+) SetToBag({SelfReply(ev, i, event.user)}))
                 ELSE MessageLoop(event, ev, data, i + 1, minus, snt)

Message(event) ==
    LET out == MessageLoop(event, nevents + 1, EventData(event), 1, tasks, sent)
    IN /\ Len(out.tasks) <= MaxTasks
       /\ tasks' = out.tasks
       /\ sent' = out.sent
       /\ nevents' = nevents + 1
       /\ returned' = Returned(IF out.result THEN "true" ELSE "false", "none")
       /\ UNCHANGED <<usertracker, scores, temps, now, ticks, composer>>

(* What the handler can be given by extractPlusMinusEventData: any number  *)
(* of entries, among them entries with no item, and a quantity that may be *)
(* 0.  The handler tests for both at line 240.                             *)
ParsedItemSeqs == UNION {[1 .. n -> Items \cup {""}] : n \in 0 .. MaxMentions}

ParsedEvents ==
    [user : Users, items : ParsedItemSeqs, quantity : 0 .. 1, cats : {0}]

-----------------------------------------------------------------------------
(* handleEvent and the other handlers.                                     *)

(* A field that the event does not have; in a string it reads "undefined". *)
Undefined == "undefined"

(* What the string conversion of an object gives.                          *)
ObjectString == "[object Object]"

Types == {Undefined, "message", "app_mention", "reaction_added", "channel_created"}

Subtypes == {Undefined, "bot_message"}

Texts == {Undefined, "", "  ", "text"}

Reactions == {Undefined, "taco", "thumbsup"}

Channels == {"C1", "G1"}

(* Lines 300-314: the keys of appCommandHandlers.                          *)
PlusCommands == {"++", ":taco:", ":cat:"}

HelpCommands == {"help"}

HelpAllCommands == {"helpall"}

ThanksCommands == {"thx", "thanks", "thankyou"}

LeaderboardCommands == {"leaderboardall", "leaderboard"}

ResetCommands == {"reincarnate"}

validCommands ==
    LeaderboardCommands \cup ResetCommands \cup HelpAllCommands
        \cup HelpCommands \cup ThanksCommands \cup PlusCommands

(* extractCommand returns false for a text with no command in it.          *)
NoCommand == "false"

(* String.prototype.trim on the texts of the model.                        *)
Trim(text) == IF text = "  " THEN "" ELSE text

(* lodash.camelcase on the event types of the model.                       *)
CamelCase(type) ==
    CASE type = "app_mention" -> "appMention"
      [] type = "reaction_added" -> "reactionAdded"
      [] type = "channel_created" -> "channelCreated"
      [] OTHER -> type

(* Lines 228, 274 and 298: the keys of handlers.                           *)
HandlerNames == {"message", "reactionAdded", "appMention"}

(* An event as Slack delivers it, with what the parsers of helpers make of *)
(* its text: items, quantity and cats for extractPlusMinusEventData,       *)
(* command for extractCommand.                                             *)
RawEvent(type, subtype, text, reaction, user, item_user, channel, command, items, cats) ==
    [type |-> type, subtype |-> subtype, text |-> text, reaction |-> reaction,
     user |-> user, item_user |-> item_user, channel |-> channel,
     command |-> command, items |-> items, quantity |-> 1, cats |-> cats]

MessageEvents ==
    {RawEvent("message", subtype, text, Undefined, user, Undefined, "C1",
              NoCommand, items, cats) :
        subtype \in Subtypes, text \in Texts, user \in Users,
        items \in {<< >>} \cup {<<item>> : item \in Names}, cats \in 0 .. 1}

MentionEvents ==
    {RawEvent("app_mention", subtype, text, Undefined, user, Undefined,
              channel, command, << >>, 0) :
        subtype \in Subtypes, text \in Texts, user \in Users,
        channel \in Channels, command \in validCommands \cup {NoCommand}}

ReactionEvents ==
    {RawEvent("reaction_added", subtype, text, reaction, user, item_user,
              "C1", NoCommand, << >>, 0) :
        subtype \in Subtypes, text \in Texts, reaction \in Reactions,
        user \in Users, item_user \in Users}

OtherEvents ==
    {RawEvent(type, subtype, text, Undefined, "UA", Undefined, "C1",
              NoCommand, << >>, 0) :
        type \in {Undefined, "channel_created"}, subtype \in Subtypes,
        text \in Texts}

(* The parsers find something only in a text that has something in it.     *)
RawEvents ==
    {event \in MessageEvents \cup MentionEvents \cup ReactionEvents
                   \cup OtherEvents :
        (event.text = Undefined \/ Trim(event.text) = "")
            => (event.items = << >> /\ event.command = NoCommand)}

(* Line 363: the event is a taco reaction.                                 *)
IsTacoReaction(event) ==
    event.type = "reaction_added" /\ event.reaction = "taco"

TextRequiredNever(event) == FALSE

(* Line 366: the event is one that must carry a text.                      *)
TextRequired(event) == ~IsTacoReaction(event)

HasSubtypeNever(event) == FALSE

(* Line 358: the event has a subtype.                                      *)
HasSubtype(event) == event.subtype # Undefined

(* handleEvent, lines 344-382: the handler the event goes to, or "false"   *)
(* when handleEvent returns false without calling one.                     *)
HandleEventTarget(event) ==
    IF event.type = Undefined THEN "false"
    ELSE IF HasSubtype(event) THEN "false"
    ELSE IF TextRequired(event)
             /\ (event.text = Undefined \/ Trim(event.text) = "")
         THEN "false"
         ELSE IF CamelCase(event.type) \in HandlerNames
              THEN CamelCase(event.type)
              ELSE "false"

(* The warning that handleEvent logs when it returns false: lines 349,     *)
(* 359, 367 and 379.                                                       *)
HandleEventWarning(event) ==
    IF event.type = Undefined THEN "Event data missing"
    ELSE IF HasSubtype(event) THEN "Unsupported event subtype"
    ELSE IF TextRequired(event)
             /\ (event.text = Undefined \/ Trim(event.text) = "")
         THEN "Event text missing"
         ELSE "Invalid event received"

(* A message that a handler of an app_mention or a query sends: to the     *)
(* channel, or with sendEphemeral to one user in the channel.              *)
EventReply(kind, ev, cmd, user, channel, ephemeral) ==
    Reply(kind, ev, cmd, user, "", <<>>, 0)
        @@ [channel |-> channel, ephemeral |-> ephemeral]

(* handleEvent returns false at one of lines 350, 360, 368 and 380.        *)
Rejected(event) ==
    /\ HandleEventTarget(event) = "false"
    /\ nevents' = nevents + 1
    /\ returned' = Returned("false", HandleEventWarning(event))
    /\ UNCHANGED <<usertracker, scores, temps, now, ticks, tasks, sent, composer>>

ReactionTasksPlus(ev, event) ==
    IF event.item_user # event.user
    THEN <<NewTask(ev, event.user, event.item_user, "+", 1)>>
    ELSE << >>

(* Line 277 is a comment: a reaction starts no command.                    *)
ReactionTasks(ev, event) == << >>

(* handlers.reactionAdded, lines 274-282.                                  *)
ReactionAdded(event) ==
    /\ HandleEventTarget(event) = "reactionAdded"
    /\ nevents' = nevents + 1
    /\ returned' = Returned(IF event.item_user # event.user
                             THEN "true" ELSE "false", "none")
    /\ tasks' = tasks \o ReactionTasks(nevents + 1, event)
    /\ UNCHANGED <<usertracker, scores, temps, now, ticks, sent, composer>>

(* handlers.message reached through handleEvent.                           *)
MessageEvent(event) ==
    /\ HandleEventTarget(event) = "message"
    /\ Message(event)

UnknownReplyToChannel(ev, event) ==
    EventReply("unknown", ev, 0, Undefined, event.channel, FALSE)

(* Lines 323-328: the reply to a text with no command in it.               *)
UnknownReply(ev, event) ==
    EventReply("unknown", ev, 0, event.user, event.channel, TRUE)

(* The task of a command handler that awaits the database: reset (line     *)
(* 303) is called with the event, handlePlusMinus (lines 309-312) with the *)
(* event as item and the request as operation, its other parameters        *)
(* undefined.                                                              *)
CommandTask(ev, event) ==
    IF event.command \in ResetCommands
    THEN [channel |-> event.channel]
             @@ [NewTask(ev, event.user, "", event.command, 0)
                     EXCEPT !.pc = "reset"]
    ELSE [channel |-> Undefined]
             @@ NewTask(ev, Undefined, ObjectString, ObjectString, 0)

(* The message of a command handler that sends at once: sendHelp (lines    *)
(* 150-176), sendAllHelp (186-208), sayThankyou (122-140), the default of  *)
(* appMention, and the handlers of leaderboard.                            *)
CommandReply(ev, event) ==
    CASE event.command = NoCommand -> UnknownReply(ev, event)
      [] event.command \in HelpCommands ->
            EventReply("help", ev, 0, event.user, event.channel, TRUE)
      [] event.command \in HelpAllCommands ->
            EventReply("helpall", ev, 0, Undefined, event.channel, FALSE)
      [] event.command \in ThanksCommands ->
            EventReply("thanks", ev, 0, event.user, event.channel, FALSE)
      [] event.command \in LeaderboardCommands ->
            EventReply("leaderboard", ev, 0, Undefined, event.channel, FALSE)

(* handlers.appMention, lines 298-330.                                     *)
AppMention(event) ==
    /\ HandleEventTarget(event) = "appMention"
    /\ nevents' = nevents + 1
    /\ returned' = Returned("promise", "none")
    /\ IF event.command \in ResetCommands \cup PlusCommands
       THEN /\ Len(tasks) < MaxTasks
            /\ tasks' = Append(tasks, CommandTask(nevents + 1, event))
            /\ UNCHANGED sent
       ELSE /\ sent' = Send(CommandReply(nevents + 1, event))
            /\ UNCHANGED tasks
    /\ UNCHANGED <<usertracker, scores, temps, now, ticks, composer>>

(* handleEvent, lines 344-382, with the handler it calls.                  *)
HandleEvent(event) ==
    \/ Rejected(event)
    \/ MessageEvent(event)
    \/ ReactionAdded(event)
    \/ AppMention(event)

ResetTempScoresDrop(table) == << >>

(* points.resetTempScores, called at line 107 and not among the sources:   *)
(* by the specification of the score store it sets the era score of every  *)
(* row to 0 and touches nothing else.                                      *)
ResetTempScores(table) == [key \in DOMAIN table |-> 0]

(* reset, lines 106-110: the database executes the reset, and the handler  *)
(* tells the channel.                                                      *)
ResetExec(t) ==
    /\ tasks[t].pc = "reset"
    /\ temps' = ResetTempScores(temps)
    /\ tasks' = SetTask(t, [pc |-> "done"])
    /\ sent' = Send(EventReply("reset", tasks[t].ev, t, Undefined,
                               tasks[t].channel, FALSE))
    /\ UNCHANGED <<usertracker, scores, now, ticks, nevents, returned, composer>>

(* Lines 80-83 of the points module with an operation that is no sign: the *)
(* statement is no SQL, the query is rejected and so are updateScore and   *)
(* handlePlusMinus; nothing is sent.                                       *)
UpdateFail(t) ==
    /\ tasks[t].pc = "upsert"
    /\ tasks[t].operation \notin {"+", "-"}
    /\ tasks' = SetTask(t, [pc |-> "failed"])
    /\ UNCHANGED <<usertracker, scores, temps, now, ticks, sent, nevents,
                   returned, composer>>

(* handlePlusEqual, lines 89-95, as the dispatcher of src/index.js calls   *)
(* it (lines 364-366): a task that awaits getScore.                        *)
PlusEqual(item, channel) ==
    /\ Len(tasks) < MaxTasks
    /\ nevents' = nevents + 1
    /\ returned' = Returned("promise", "none")
    /\ tasks' = Append(tasks, [channel |-> channel]
                                  @@ [NewTask(nevents + 1, Undefined, item, "=", 0)
                                          EXCEPT !.pc = "get_select"])
    /\ UNCHANGED <<usertracker, scores, temps, now, ticks, sent, composer>>

(* getScore, lines 208-216 of the points module: the database executes the *)
(* SELECT; rows[0] of an empty result is undefined and reading its score   *)
(* throws, upon which getScore and handlePlusEqual are rejected.           *)
(* Otherwise handlePlusEqual sends the score to the channel.               *)
GetScoreSelect(t) ==
    /\ tasks[t].pc = "get_select"
    /\ LET rows == SelectRows(scores, tasks[t].item)
       IN IF Len(rows) < 1
          THEN /\ tasks' = SetTask(t, [pc |-> "failed"])
               /\ UNCHANGED sent
          ELSE /\ tasks' = SetTask(t, [pc |-> "done"])
               /\ sent' = Send([EventReply("equal", tasks[t].ev, t, Undefined,
                                           tasks[t].channel, FALSE)
                                    EXCEPT !.item = tasks[t].item,
                                           !.score = <<rows[1]>>])
    /\ UNCHANGED <<usertracker, scores, temps, now, ticks, nevents, returned,
                   composer>>

-----------------------------------------------------------------------------
(* Storage faults.  Every query is awaited with no try around it, in the   *)
(* points module and in handlePlusMinus alike: a query that the database   *)
(* fails to execute rejects, the rejection leaves checkCanUpdate or        *)
(* updateScore and then handlePlusMinus, and the rest of the handler does  *)
(* not run.                                                                *)

OnQueryErrorSwallowed(next) == next

(* Where a task goes when its query is rejected instead of going to next.  *)
OnQueryError(next) == "failed"

(* The task's query was rejected.                                          *)
Faulted(t) == "error" \in DOMAIN tasks[t]

(* checkCanUpdate, lines 229-266 of the points module: one of its queries  *)
(* is rejected; the queries executed before stay executed.                 *)
CheckFault(t) ==
    /\ tasks[t].pc \in {"select", "insert", "reselect", "write_inc", "write_reset"}
    /\ tasks' = SetTask(t, [pc |-> OnQueryError(
                                      CASE tasks[t].pc = "select" -> "selected"
                                        [] tasks[t].pc = "insert" -> "reselect"
                                        [] tasks[t].pc = "reselect" -> "reselected"
                                        [] OTHER -> "upsert"),
                            error |-> tasks[t].pc])
    /\ UNCHANGED <<usertracker, scores, temps, now, ticks, sent, nevents,
                   returned, composer>>

AfterUpdateErrorRetry(pc) == pc

(* handlePlusMinus, lines 50-57: where the call is after a rejected query  *)
(* of updateScore at pc; nothing catches the rejection and nothing calls   *)
(* updateScore again.                                                      *)
AfterUpdateError(pc) ==
    OnQueryError(IF pc = "upsert" THEN "score_select" ELSE "done")

(* updateScore, lines 80-89 of the points module: the upsert is rejected   *)
(* and no row has moved, or the SELECT after it is rejected and the row    *)
(* stays as the upsert left it.                                            *)
UpdateFault(t) ==
    /\ tasks[t].pc \in {"upsert", "score_select"}
    /\ tasks' = SetTask(t, [pc |-> AfterUpdateError(tasks[t].pc),
                            error |-> tasks[t].pc])
    /\ UNCHANGED <<usertracker, scores, temps, now, ticks, sent, nevents,
                   returned, composer>>

-----------------------------------------------------------------------------
(* The clock, in seconds: Math.floor(new Date() / 1000).                   *)

Tick(sizes, limit) ==
    /\ ticks < limit
    /\ \E d \in sizes : now' = now + d
    /\ ticks' = ticks + 1
    /\ UNCHANGED <<usertracker, scores, temps, tasks, sent, nevents, returned,
                   composer>>

-----------------------------------------------------------------------------
(* The message composer: getRandomMessage of src/src/messages.js.          *)

(* The keys of messages: the operations that own message sets.             *)
OperationKinds == {"PLUS", "MINUS", "EQUAL", "SELF", "RANDOM", "REALLYRANDOM"}

(* Lines 17-151: the sets of an operation, each with its probability and   *)
(* the number of its strings; a string is its index in the set.            *)
MessageSet(probability, size) == [probability |-> probability, size |-> size]

Messages(operation) ==
    CASE operation = "PLUS" -> <<MessageSet(100, 42), MessageSet(1, 1)>>
      [] operation = "MINUS" -> <<MessageSet(100, 9), MessageSet(1, 1)>>
      [] operation = "EQUAL" -> <<MessageSet(100, 2), MessageSet(1, 1)>>
      [] operation = "SELF" -> <<MessageSet(100, 4), MessageSet(1, 1)>>
      [] operation = "RANDOM" -> <<MessageSet(100, 4), MessageSet(1, 1)>>
      [] operation = "REALLYRANDOM" -> <<MessageSet(100, 4), MessageSet(1, 1)>>
      [] OTHER -> << >>

(* Lines 168-184: the format of the operation, "" where the switch throws. *)
Format(operation) ==
    CASE operation \in {"MINUS", "PLUS"} ->
            "<message> *<item>* has <tempScore> :taco:<plural>. (<score> total)"
      [] operation = "SELF" -> "<item> <message>"
      [] operation = "EQUAL" ->
            "<message> *<item>* currently at <score> :taco:<plural>."
      [] OTHER -> ""

RECURSIVE TotalProbability(_, _)
(* Lines 186-189: the sum of the probabilities of the first n sets.        *)
TotalProbability(messageSets, n) ==
    IF n = 0 THEN 0
    ELSE TotalProbability(messageSets, n - 1) + messageSets[n].probability

(* Math.floor( Math.random() * x ) for the random number draw / draws.     *)
FloorRandom(draw, draws, x) == (draw * x) \div draws

ChosenAtZero(setRandom) == 0 >= setRandom

(* Line 197: the set is chosen.                                            *)
Chosen(setRandom) == 0 > setRandom

RECURSIVE ChooseSet(_, _, _)
(* Lines 194-201: the loop from set i on with setRandom left; the index of *)
(* the chosen set, 0 when the loop ends with chosenSet null.               *)
ChooseSet(messageSets, i, setRandom) ==
    IF i > Len(messageSets) THEN 0
    ELSE IF Chosen(setRandom - messageSets[i].probability)
         THEN i
         ELSE ChooseSet(messageSets, i + 1, setRandom - messageSets[i].probability)

(* Lines 210-211: max and the index of the string, for a set of length     *)
(* strings.                                                                *)
MessageIndex(length, draw, draws) == FloorRandom(draw, draws, length - 1)

(* helpers.isPlural, called at line 209 and not among the sources: by the  *)
(* specification of the composer the suffix is there unless the score is   *)
(* exactly 1.                                                              *)
IsPlural(score) == score # 1

(* What a call of getRandomMessage gives: the parts of the formatted       *)
(* message, or the error thrown.                                           *)
GetRandomMessage(operation, score, tempScore, setDraw, messageDraw) ==
    LET messageSets == Messages(operation)
        total == TotalProbability(messageSets, Len(messageSets))
        chosenSet == ChooseSet(messageSets, 1,
                               FloorRandom(setDraw, SetDraws, total))
    IN IF Format(operation) = ""
       THEN [status |-> "Invalid operation"]
       ELSE IF chosenSet = 0
            THEN [status |-> "Could not find set"]
            ELSE [status |-> "returned",
                  format |-> Format(operation),
                  set |-> chosenSet,
                  message |-> MessageIndex(messageSets[chosenSet].size,
                                           messageDraw, MessageDraws),
                  plural |-> IF IsPlural(score) THEN "s" ELSE "",
                  score |-> score,
                  tempScore |-> tempScore]

(* No call of the composer is modelled.                                    *)
NoCall == [status |-> "none"]

(* A call of getRandomMessage with its arguments and the two numbers that  *)
(* Math.random() is going to return.                                       *)
Calls ==
    [status : {"called"},
     operation : OperationKinds \cup {"NOP"},
     score : 0 .. MaxScore,
     tempScore : 0 .. 1,
     setDraw : 0 .. SetDraws - 1,
     messageDraw : 0 .. MessageDraws - 1]

(* getRandomMessage runs.                                                  *)
Compose ==
    /\ composer.status = "called"
    /\ composer' = [call |-> composer]
                       @@ GetRandomMessage(composer.operation, composer.score,
                                           composer.tempScore, composer.setDraw,
                                           composer.messageDraw)
    /\ UNCHANGED <<usertracker, scores, temps, now, ticks, tasks, sent, nevents,
                   returned>>

-----------------------------------------------------------------------------

InitEngine ==
    /\ usertracker = << >>
    /\ scores = << >>
    /\ temps = << >>
    /\ now = 0
    /\ ticks = 0
    /\ tasks = << >>
    /\ sent = EmptyBag
    /\ nevents = 0
    /\ returned = Returned("none", "none")

(* The state when the process has started: empty tables, nothing in        *)
(* flight, no message being composed.                                      *)
Init == InitEngine /\ composer = NoCall

(* The composer alone: any call, with any pair of random numbers.          *)
InitCompose == InitEngine /\ composer \in Calls

SpecCompose == InitCompose /\ [][Compose]_vars

AllDone == \A t \in TaskIds : tasks[t].pc = "done"

Receive == \E event \in Events : nevents < MaxEvents /\ Message(event)

Select == \E t \in TaskIds : CheckSelect(t)

Decide == \E t \in TaskIds : CheckDecide(t)

Insert == \E t \in TaskIds : CheckInsert(t)

Reselect == \E t \in TaskIds : CheckReselect(t)

Write == \E t \in TaskIds : CheckWrite(t)

ScoreUpsert == \E t \in TaskIds : UpdateUpsert(t)

ScoreSelect == \E t \in TaskIds : UpdateSelect(t)

(* A handler runs for milliseconds and a window lasts an hour: here the    *)
(* clock moves by whole windows, between two bursts of events.             *)
TickWindow == AllDone /\ Tick(WindowTicks, MaxTicks)

Next ==
    \/ Receive
    \/ Select
    \/ Decide
    \/ Insert
    \/ Reselect
    \/ Write
    \/ ScoreUpsert
    \/ ScoreSelect
    \/ TickWindow

(* Events arrive and tasks interleave freely.                              *)
Spec == Init /\ [][Next]_vars

ReceiveSeq ==
    \E event \in Events :
        /\ nevents < MaxSeqEvents
        /\ AllDone
        /\ Len(event.items) = 1
        /\ event.cats = 0
        /\ Message(event)

(* Here the clock moves at any moment, by the steps that reach the last    *)
(* second of a window and the first second after it.                       *)
TickEdge == Tick(EdgeTicks, MaxSeqTicks)

NextSeq ==
    \/ ReceiveSeq
    \/ Select
    \/ Decide
    \/ Insert
    \/ Reselect
    \/ Write
    \/ ScoreUpsert
    \/ ScoreSelect
    \/ TickEdge

(* One command at a time: an event arrives when no task is in flight and   *)
(* carries one command.                                                    *)
SpecSeq == Init /\ [][NextSeq]_vars

Quiet == \A t \in TaskIds : tasks[t].pc \in {"done", "failed"}

ReceiveEvent ==
    \E event \in RawEvents : nevents < MaxRawEvents /\ MessageEvent(event)

Reject == \E event \in RawEvents : nevents < MaxRawEvents /\ Rejected(event)

React ==
    \E event \in RawEvents : nevents < MaxRawEvents /\ ReactionAdded(event)

Mention == \E event \in RawEvents : nevents < MaxRawEvents /\ AppMention(event)

Query ==
    \E item \in Names, channel \in Channels :
        nevents < MaxRawEvents /\ PlusEqual(item, channel)

ScoreFail == \E t \in TaskIds : UpdateFail(t)

Reset == \E t \in TaskIds : ResetExec(t)

GetSelect == \E t \in TaskIds : GetScoreSelect(t)

NextEvents ==
    \/ ReceiveEvent
    \/ Reject
    \/ React
    \/ Mention
    \/ Query
    \/ Select
    \/ Decide
    \/ Insert
    \/ Reselect
    \/ Write
    \/ ScoreUpsert
    \/ ScoreFail
    \/ Reset
    \/ GetSelect
    \/ ScoreSelect

(* Every kind of event arrives through handleEvent, queries and resets     *)
(* interleave with the commands; the clock stands still.                   *)
SpecEvents == Init /\ [][NextEvents]_vars

ReceiveOne ==
    \E event \in Events :
        /\ nevents < MaxFaultEvents
        /\ Len(event.items) = 1
        /\ Message(event)

LimiterFault == \E t \in TaskIds : CheckFault(t)

ScoreFault == \E t \in TaskIds : UpdateFault(t)

NextFaults ==
    \/ ReceiveOne
    \/ Select
    \/ Decide
    \/ Insert
    \/ Reselect
    \/ Write
    \/ ScoreUpsert
    \/ ScoreSelect
    \/ LimiterFault
    \/ ScoreFault

(* Messages of one entry arrive at any moment and any query of a command   *)
(* may be rejected by the database; the clock stands still.                *)
SpecFaults == Init /\ [][NextFaults]_vars

(* A step of a handlePlusMinus call: the database answers the query the    *)
(* call is waiting for and the call runs to its next query or to its end.  *)
Progress ==
    \/ Select
    \/ Decide
    \/ Insert
    \/ Reselect
    \/ Write
    \/ ScoreUpsert
    \/ ScoreSelect

(* The message path when the database answers every query and the event    *)
(* loop runs every continuation: as long as a call is waiting, some call   *)
(* proceeds.  The clock stands still.                                      *)
NextLive == Receive \/ Progress

SpecLive == Init /\ [][NextLive]_vars /\ WF_vars(Progress)

ReceiveParsed ==
    \E event \in ParsedEvents : nevents < MaxParsedEvents /\ Message(event)

NextParsed ==
    \/ ReceiveParsed
    \/ Select
    \/ Decide
    \/ Insert
    \/ Reselect
    \/ Write
    \/ ScoreUpsert
    \/ ScoreSelect

(* The message handler with every parsed data it guards against.           *)
SpecParsed == Init /\ [][NextParsed]_vars

-----------------------------------------------------------------------------
(* Vocabulary of the properties.                                           *)

Allowed(t) == tasks[t].check = "true"

Denied(t) == tasks[t].check = "false"

AllowedOf(user) == {t \in TaskIds : tasks[t].user = user /\ Allowed(t)}

(* The place of a command among the commands of its user, in the order     *)
(* the commands were issued.                                               *)
Rank(t) == Cardinality({s \in TaskIds : s <= t /\ tasks[s].user = tasks[t].user})

Record(user) == usertracker[CiKey(user)]

(* Every evaluation allowed for the user so far is counted in the record,  *)
(* and the window of the record is still running: no evaluation has        *)
(* started a new window after the first one.                               *)
InFirstWindow(user) ==
    /\ CiKey(user) \in DOMAIN usertracker
    /\ Record(user).operations = Cardinality(AllowedOf(user))
    /\ now - Record(user).ts < WINDOW

(* updateScore's upsert of task t has been executed.                       *)
Applied(t) == tasks[t].pc = "score_select" \/ (tasks[t].pc = "done" /\ Allowed(t))

Targets(t, item) == CiKey(tasks[t].item) = CiKey(item)

ScoreOf(item) == IF CiKey(item) \in DOMAIN scores THEN scores[CiKey(item)] ELSE 0

RepliesTo(t) == {r \in BagToSet(sent) : r.cmd = t}

-----------------------------------------------------------------------------
(* C1: check-and-consume is atomic per actor: of the evaluations made for  *)
(* one actor inside one window that starts with MAX_OPS free slots, at     *)
(* most MAX_OPS return allow, however the evaluations interleave.          *)
C1_AtMostFreeSlotsAllowed ==
    now < WINDOW =>
        \A user \in Users : Cardinality(AllowedOf(user)) <= MAX_OPS

(* C2: the commands of one message are handled one after the other: a      *)
(* later command starts its rate-limit evaluation only when every earlier  *)
(* command of the message has completed.                                   *)
C2_CommandsOneAfterTheOther ==
    \A t1, t2 \in TaskIds :
        (t1 < t2 /\ tasks[t1].ev = tasks[t2].ev /\ tasks[t2].pc # "select")
            => tasks[t1].pc = "done"

(* C3: for an actor without a record, evaluations made one after the other *)
(* and all less than WINDOW seconds after the first one return allow for   *)
(* the first MAX_OPS of them and deny for every later one.                 *)
C3_FirstMaxOpsAllowed ==
    \A t \in TaskIds :
        (tasks[t].check # "none" /\ InFirstWindow(tasks[t].user))
            => (Allowed(t) <=> Rank(t) <= MAX_OPS)

(* The deny of command MAX_OPS + 1 in the last second of the window.       *)
C3_Witness ==
    \E t \in TaskIds :
        /\ Rank(t) = MAX_OPS + 1
        /\ Denied(t)
        /\ InFirstWindow(tasks[t].user)
        /\ now - Record(tasks[t].user).ts = WINDOW - 1

(* C4: an evaluation that reads a record whose window started WINDOW       *)
(* seconds ago or earlier builds the reset whatever the stored count, and  *)
(* when its query has run it returns allow and the record has count 1 and  *)
(* the time of the evaluation as window start.                             *)
C4_ExpiredWindowResets ==
    [][\A t \in TaskIds :
          /\ (/\ tasks[t].pc \in {"selected", "reselected"}
              /\ Len(tasks[t].dbSelect) > 0
              /\ now - tasks[t].dbSelect[1].ts >= WINDOW
              /\ tasks'[t].pc # tasks[t].pc)
                 => /\ tasks'[t].pc = "write_reset"
                    /\ tasks'[t].query = [operations |-> 1, ts |-> now]
          /\ (tasks[t].pc = "write_reset" /\ tasks'[t].pc # "write_reset")
                 => /\ Allowed(t)'
                    /\ usertracker'[CiKey(tasks[t].user)] =
                           [operations |-> 1, ts |-> tasks[t].query.ts]]_vars

(* A full window (count = MAX_OPS) that is exactly WINDOW seconds old has  *)
(* been reset by one more evaluation.                                      *)
C4_Witness ==
    \E t \in TaskIds :
        /\ Rank(t) = MAX_OPS + 1
        /\ Allowed(t)
        /\ Cardinality(AllowedOf(tasks[t].user)) = MAX_OPS + 1
        /\ Record(tasks[t].user) = [operations |-> 1, ts |-> WINDOW]

(* C5: in every reachable state the count of every record is at most       *)
(* MAX_OPS.                                                                *)
C5_CountWithinMax ==
    \A key \in DOMAIN usertracker : usertracker[key].operations <= MAX_OPS

(* A record is full while a further evaluation, which read it before it    *)
(* was full, is about to write its own count.                              *)
C5_Witness ==
    \E t \in TaskIds :
        /\ tasks[t].pc = "write_inc"
        /\ CiKey(tasks[t].user) \in DOMAIN usertracker
        /\ usertracker[CiKey(tasks[t].user)].operations = MAX_OPS

(* C6: an evaluation that returns deny has left the record of its user as  *)
(* it was: it has not changed the count or the window start of a record.   *)
C6_DenyLeavesRecord ==
    \A t \in TaskIds : Denied(t) => ~tasks[t].overwrote

(* C7: the message handler answers every entry whose target is the acting  *)
(* user with one self-target reply and starts no command for it, starts a  *)
(* command for every other entry of the message, and changes no record.    *)
C7_SelfTargetOnlyReplies ==
    [][\A event \in Events :
          (nevents' # nevents /\ Message(event)) =>
              LET started == (Len(tasks) + 1) .. Len(tasks')
              IN /\ \A i \in 1 .. Len(event.items) :
                       IF event.items[i] = event.user
                       THEN CopiesIn(SelfReply(nevents + 1, i, event.user), sent') = 1
                       ELSE \E t \in started :
                                /\ tasks'[t].item = event.items[i]
                                /\ tasks'[t].operation = "+"
                                /\ tasks'[t].pc = "select"
                 /\ \A t \in started : tasks'[t].item # event.user
                 /\ scores' = scores
                 /\ usertracker' = usertracker]_vars

(* A message with a self-target entry and another entry: the reply is sent *)
(* and the other command has run to its end.                               *)
C7_Witness ==
    \E r \in BagToSet(sent) :
        /\ r.kind = "self"
        /\ \E t \in TaskIds : tasks[t].ev = r.ev /\ tasks[t].pc = "done" /\ Allowed(t)

(* C8: updateScore runs only for a command that checkCanUpdate allowed; a  *)
(* denied command is finished with exactly one reply, the quota-exceeded   *)
(* message naming its user, and an item that no allowed command targets    *)
(* has no score.                                                           *)
C8_DeniedNeverScores ==
    /\ \A t \in TaskIds :
          /\ tasks[t].pc \in {"upsert", "score_select"} => Allowed(t)
          /\ Denied(t) =>
                /\ tasks[t].pc = "done"
                /\ RepliesTo(t) = {LimitReply(t)}
                /\ CopiesIn(LimitReply(t), sent) = 1
    /\ \A item \in Items :
          (\A t \in TaskIds : Targets(t, item) => ~Allowed(t))
              => CiKey(item) \notin DOMAIN scores

(* A denied command and another command of the same message that has been *)
(* handled to its end.                                                     *)
C8_Witness ==
    \E t1, t2 \in TaskIds :
        /\ t1 # t2
        /\ tasks[t1].ev = tasks[t2].ev
        /\ Denied(t1)
        /\ tasks[t2].pc = "done"
        /\ Allowed(t2)

RECURSIVE SumPoints(_, _)
SumPoints(n, item) ==
    IF n = 0 THEN 0
    ELSE SumPoints(n - 1, item)
         + (IF Targets(n, item) /\ Allowed(n)
            THEN Delta(tasks[n].operation) * tasks[n].quantity ELSE 0)

(* C9: an allowed command of polarity p and magnitude m moves the score of *)
(* its target by p * m, from 0 for a new item: when every command is       *)
(* finished each score is the sum of p * m over the allowed commands.      *)
C9_ScoreMovesByMagnitude ==
    AllDone => \A item \in Items : ScoreOf(item) = SumPoints(Len(tasks), item)

RECURSIVE SumDeltas(_, _)
SumDeltas(n, item) ==
    IF n = 0 THEN 0
    ELSE SumDeltas(n - 1, item)
         + (IF Targets(n, item) /\ Applied(n) THEN Delta(tasks[n].operation) ELSE 0)

(* C10: no update is lost: in every state the stored score of an item is   *)
(* the sum of the deltas of the updateScore calls executed on it so far,   *)
(* and the item has a row exactly when there was such a call.              *)
C10_NoLostUpdate ==
    \A item \in Items :
        /\ ScoreOf(item) = SumDeltas(Len(tasks), item)
        /\ CiKey(item) \in DOMAIN scores
              <=> \E t \in TaskIds : Targets(t, item) /\ Applied(t)

(* Two updateScore calls on one new item have both executed their upsert   *)
(* before either has read the score back.                                  *)
C10_Witness ==
    \E t1, t2 \in TaskIds :
        /\ t1 # t2
        /\ Targets(t1, tasks[t2].item)
        /\ tasks[t1].pc = "score_select"
        /\ tasks[t2].pc = "score_select"
        /\ tasks[t1].operation = tasks[t2].operation
        /\ ScoreOf(tasks[t1].item) = 2 * Delta(tasks[t1].operation)

(* The era score of an item's row, 0 when the item has none.               *)
TempOf(item) == IF CiKey(item) \in DOMAIN temps THEN temps[CiKey(item)] ELSE 0

(* The step is the database executing the reset of task t.                 *)
ResetStep(t) == tasks[t].pc = "reset" /\ tasks'[t].pc = "done"

C13_QueryNeverFails ==
    \A t \in TaskIds :
        (tasks[t].operation = "=" /\ tasks[t].pc # "get_select")
            => /\ tasks[t].pc = "done"
               /\ \E r \in RepliesTo(t) : r.kind = "equal"

(* Two names are the same item when they differ in letter case only.       *)
FoldCase(name) ==
    CASE name \in {"UA", "ua"} -> "ua"
      [] name \in {PRIVILEGED, "ulj7nns8h"} -> "ulj7nns8h"
      [] OTHER -> name

RECURSIVE SumSameItem(_, _)
(* The sum of the deltas of the first n tasks whose updateScore has        *)
(* executed on an item that is name up to letter case.                     *)
SumSameItem(n, name) ==
    IF n = 0 THEN 0
    ELSE SumSameItem(n - 1, name)
         + (IF FoldCase(tasks[n].item) = FoldCase(name) /\ Applied(n)
            THEN Delta(tasks[n].operation) ELSE 0)

(* The step is the database answering the getScore of task t.              *)
QueryStep(t) == tasks[t].pc = "get_select" /\ tasks'[t].pc # "get_select"

(* C14: item names that differ in letter case only are one record: when a  *)
(* query through a name is answered, the score it returns is the sum of    *)
(* the updates made so far through any spelling of the name, it finds no   *)
(* row only when there was no such update, and no two rows of the table    *)
(* have keys that differ in letter case only.                              *)
C14_CaseInsensitiveIdentity ==
    [][/\ \A k1, k2 \in DOMAIN scores' :
            FoldCase(k1) = FoldCase(k2) => k1 = k2
       /\ \A t \in TaskIds :
            QueryStep(t) =>
               IF \E s \in TaskIds :
                      /\ FoldCase(tasks[s].item) = FoldCase(tasks[t].item)
                      /\ Applied(s)
               THEN \E r \in BagToSet(sent') :
                       /\ r.cmd = t
                       /\ r.kind = "equal"
                       /\ r.score = <<SumSameItem(Len(tasks), tasks[t].item)>>
               ELSE tasks'[t].pc = "failed"]_vars

(* A query through "ua" has returned the score that an update through      *)
(* "UA" has made.                                                          *)
C14_Witness ==
    /\ \E t \in TaskIds : tasks[t].item = "UA" /\ Applied(t)
    /\ \A t \in TaskIds : tasks[t].item # "ua" \/ tasks[t].operation = "="
    /\ \E r \in BagToSet(sent) :
          r.kind = "equal" /\ r.item = "ua" /\ r.score = <<1>>

(* C15: the compensating decrement is off unless a deployment turns it on: *)
(* in the configuration the code runs in when nothing is configured, no    *)
(* message starts a command of operation "-", whoever sends it; and a      *)
(* command of operation "-" is never started for a user other than the     *)
(* privileged one.                                                         *)
C15_NoDecrementByDefault ==
    /\ \A t \in TaskIds : tasks[t].operation # "-"
    /\ \A t \in TaskIds : tasks[t].operation = "-" => tasks[t].user = PRIVILEGED

(* C16: an app_mention whose text holds no command is answered by one      *)
(* message, the "not understood" one, sent with sendEphemeral to the user  *)
(* of the event in the channel of the event; no row of either table        *)
(* changes and no command starts.                                          *)
C16_UnknownCommandEphemeral ==
    [][\A event \in RawEvents :
         (nevents' # nevents /\ event.command = NoCommand /\ AppMention(event))
            => /\ UNCHANGED <<usertracker, scores, temps, tasks>>
               /\ BagCardinality(sent') = BagCardinality(sent) + 1
               /\ \E r \in BagToSet(sent') :
                     /\ CopiesIn(r, sent') = CopiesIn(r, sent) + 1
                     /\ r.kind = "unknown"
                     /\ r.ephemeral
                     /\ r.user = event.user
                     /\ r.channel = event.channel]_vars

(* The "not understood" message has gone to a user in a private channel    *)
(* while rows existed in both tables.                                      *)
C16_Witness ==
    /\ \E r \in BagToSet(sent) :
          r.kind = "unknown" /\ r.channel = "G1" /\ r.user = "UA"
    /\ DOMAIN scores # {}
    /\ DOMAIN usertracker # {}

(* A text that is missing or has nothing but white space in it.            *)
NoText(text) == text \in {Undefined, "", "  "}

(* C17: handleEvent turns away every event that has no type and every      *)
(* event other than a reaction whose text is missing or blank: it returns  *)
(* false, and the call sends nothing, starts no command and changes no     *)
(* row.                                                                    *)
C17_MalformedEventRejected ==
    [][\A event \in RawEvents :
         (/\ nevents' # nevents
          /\ \/ event.type = Undefined
             \/ event.type # "reaction_added" /\ NoText(event.text)
          /\ HandleEvent(event))
            => /\ returned'.value = "false"
               /\ UNCHANGED <<usertracker, scores, temps, tasks, sent>>]_vars

(* An event was turned away for its missing text when rows existed in both *)
(* tables and a reply had been sent before.                                *)
C17_Witness ==
    /\ returned = Returned("false", "Event text missing")
    /\ DOMAIN scores # {}
    /\ DOMAIN usertracker # {}
    /\ sent # EmptyBag

(* C18: a reaction_added event, whatever its reaction, text, subtype and   *)
(* users, changes nothing: handleEvent returns true or false, sends        *)
(* nothing, starts no command and changes no row.                          *)
C18_ReactionChangesNothing ==
    [][\A event \in RawEvents :
         (/\ nevents' # nevents
          /\ event.type = "reaction_added"
          /\ HandleEvent(event))
            => /\ returned'.value \in {"true", "false"}
               /\ UNCHANGED <<usertracker, scores, temps, tasks, sent>>]_vars

(* The reaction handler has run for a user reacting to a message of their  *)
(* own (it alone returns false without a warning), when rows existed in    *)
(* both tables.                                                            *)
C18_Witness ==
    /\ returned = Returned("false", "none")
    /\ DOMAIN scores # {}
    /\ DOMAIN usertracker # {}

(* The sets of the call that the composer has answered, and the integer    *)
(* that its first random number makes over their total probability.        *)
CallSets == Messages(composer.call.operation)

CallDraw ==
    FloorRandom(composer.call.setDraw, SetDraws,
                TotalProbability(CallSets, Len(CallSets)))

(* C19: the set is chosen by weight: with d the integer drawn below the    *)
(* sum of the probabilities, the chosen set is the first one whose         *)
(* cumulative probability is above d; a set is always chosen, the "Could   *)
(* not find set" error is never thrown.                                    *)
C19_WeightedPoolChoice ==
    (composer.status \notin {"none", "called", "Invalid operation"})
        => /\ composer.status = "returned"
           /\ CallDraw \in 0 .. TotalProbability(CallSets, Len(CallSets)) - 1
           /\ CallDraw < TotalProbability(CallSets, composer.set)
           /\ \A i \in 1 .. composer.set - 1 :
                 CallDraw >= TotalProbability(CallSets, i)

(* The draw was the first integer that is not below the probability of the *)
(* first set, and the second set was chosen.                               *)
C19_Witness ==
    /\ composer.status = "returned"
    /\ CallDraw = CallSets[1].probability
    /\ composer.set = 2

(* C20: the string is picked over the whole of the chosen set: the index   *)
(* picked is an index of the set, and each index of the set is picked for  *)
(* some random number.                                                     *)
C20_EveryStringSelectable ==
    composer.status = "returned" =>
        LET length == CallSets[composer.set].size
        IN /\ composer.message \in 0 .. length - 1
           /\ \A index \in 0 .. length - 1 :
                 \E draw \in 0 .. MessageDraws - 1 :
                    MessageIndex(length, draw, MessageDraws) = index

(* Lines 171 and 179: the number that the format of the operation prints   *)
(* in front of ":taco:<plural>".                                           *)
PrintedBeforePlural(operation, score, tempScore) ==
    IF operation \in {"MINUS", "PLUS"} THEN tempScore ELSE score

(* C21: in every message whose format has a plural suffix, the suffix is   *)
(* empty exactly when the number printed in front of it is 1, and "s" when *)
(* that number is 0 or at least 2; for PLUS and MINUS that number is the   *)
(* era score.                                                              *)
C21_PluralMatchesPrintedValue ==
    (composer.status = "returned"
        /\ composer.call.operation \in {"PLUS", "MINUS", "EQUAL"})
        => LET printed == PrintedBeforePlural(composer.call.operation,
                                              composer.score, composer.tempScore)
           IN /\ composer.plural \in {"", "s"}
              /\ composer.plural = "" <=> printed = 1

(* C22: the composer answers every operation that owns message sets        *)
(* (PLUS, MINUS, EQUAL, SELF, RANDOM, REALLYRANDOM) with a message, and    *)
(* throws "Invalid operation" for an operation that owns none, and only    *)
(* for such an operation.                                                  *)
C22_EveryKindComposes ==
    (composer.status \notin {"none", "called"})
        => IF composer.call.operation \in OperationKinds
           THEN composer.status = "returned"
           ELSE composer.status = "Invalid operation"

FirstCredit(event) ==
    /\ nevents = 0
    /\ event.user = "UA"
    /\ event.items = <<PRIVILEGED>>
    /\ event.quantity = 1

ConsumeStep(t) ==
    tasks[t].pc \in {"write_inc", "write_reset"} /\ tasks'[t].pc # tasks[t].pc

(* C25: the quota counts commands, not points: a command is evaluated      *)
(* once, its result never changes afterwards, and the step in which an     *)
(* evaluation returns allow raises the count of the record of its user by  *)
(* exactly 1 (to 1 when it starts a new window), whatever the quantity of  *)
(* the command.                                                            *)
C25_OneUnitPerCommand ==
    [][\A t \in TaskIds :
         /\ tasks[t].check # "none" => tasks'[t].check = tasks[t].check
         /\ ConsumeStep(t) =>
               /\ Allowed(t)'
               /\ usertracker'[CiKey(tasks[t].user)].operations =
                     IF tasks[t].pc = "write_inc"
                     THEN Record(tasks[t].user).operations + 1
                     ELSE 1]_vars

(* C26: an app_mention that handleEvent passes to its handler with the     *)
(* command '++', ':taco:' or ':cat:' starts the command that the message   *)
(* path starts: a handlePlusMinus call of                                  *)
(* operation "+" whose acting user, the one the rate limit is evaluated    *)
(* for, is the user of the event, and whose channel, the one the reply     *)
(* goes to, is the channel of the event.                                   *)
C26_MentionPlusLikeMessage ==
    [][\A event \in RawEvents :
         (/\ nevents' # nevents
          /\ event.command \in PlusCommands
          /\ AppMention(event))
            => /\ Len(tasks') = Len(tasks) + 1
               /\ tasks'[Len(tasks')].user = event.user
               /\ tasks'[Len(tasks')].operation = "+"
               /\ tasks'[Len(tasks')].channel = event.channel
               /\ tasks'[Len(tasks')].pc = "select"]_vars

(* The replies that tell the new score of a command.                       *)
SuccessReplies == {r \in BagToSet(sent) : r.kind \in {"plus", "minus"}}

C28_SubtypeNeverHandled ==
    [][\A event \in RawEvents :
         (/\ nevents' # nevents
          /\ event.subtype \in Subtypes \ {Undefined}
          /\ HandleEvent(event))
            => /\ returned'.value = "false"
               /\ returned'.warning \in {"Event data missing",
                                         "Unsupported event subtype"}
               /\ UNCHANGED <<usertracker, scores, temps, tasks, sent>>]_vars

(* An event was turned away for its subtype while a command was waiting    *)
(* for the database and a row existed.                                     *)
C28_Witness ==
    /\ returned = Returned("false", "Unsupported event subtype")
    /\ \E t \in TaskIds : tasks[t].pc = "score_select"
    /\ DOMAIN scores # {}

(* C29: the score that updateScore returns and the reply shows is the      *)
(* value that the call's own upsert gave the row, the value before it plus *)
(* its delta, however other calls on the item interleave: the upsert sets  *)
(* the row to that value, the row keeps it while the call waits for its    *)
(* SELECT, and the reply carries the score of the row.                     *)
C29_ReturnedScoreIsOwn ==
    [][\A t \in TaskIds :
         LET key == CiKey(tasks[t].item)
         IN /\ (tasks[t].pc = "upsert" /\ tasks'[t].pc = "score_select")
                  => scores'[key] = ScoreOf(tasks[t].item)
                                       + Delta(tasks[t].operation)
            /\ (tasks[t].pc = "score_select" /\ tasks'[t].pc = "score_select")
                  => scores'[key] = scores[key]
            /\ (tasks[t].pc = "score_select" /\ tasks'[t].pc = "done")
                  => \E r \in BagToSet(sent') :
                        /\ r.cmd = t
                        /\ r.kind \in {"plus", "minus"}
                        /\ r.score[1] = scores[key]]_vars

(* The count of the record of a user, 0 when the user has none.            *)
CountOf(user) ==
    IF CiKey(user) \in DOMAIN usertracker THEN Record(user).operations ELSE 0

(* C30: when no handler is in flight and the clock has not left the first  *)
(* window, the count of every record is the number of evaluations that     *)
(* returned allow for its user, and that is the number of updateScore      *)
(* calls made for the user; also when the first evaluations of a user      *)
(* overlapped.                                                             *)
C30_CountIsAllows ==
    (AllDone /\ now < WINDOW)
        => \A user \in Users :
              /\ CountOf(user) = Cardinality(AllowedOf(user))
              /\ Cardinality(AllowedOf(user)) =
                    Cardinality({t \in TaskIds : tasks[t].user = user /\ Applied(t)})

(* C31: the message handler returns false only for a message it has done   *)
(* nothing for: the call that returns false has started no command and     *)
(* sent nothing, also when the entry without item or quantity comes after  *)
(* other entries.                                                          *)
C31_FalseMeansNothingDone ==
    [][\A event \in ParsedEvents :
         (/\ nevents' # nevents
          /\ Message(event)
          /\ returned'.value = "false")
            => tasks' = tasks /\ sent' = sent]_vars

(* C32: the self-target test agrees with the identity of the store: no     *)
(* updateScore call is executed for a command of a message whose target is *)
(* the acting user up to letter case, so no user moves the row of their    *)
(* own name.                                                               *)
C32_SelfTargetFoldsCase ==
    \A t \in TaskIds :
        (/\ tasks[t].operation \in {"+", "-"}
         /\ FoldCase(tasks[t].item) = FoldCase(tasks[t].user))
            => ~Applied(t)

(* The number of messages sent for command t.                              *)
ReplyCount(t) ==
    BagCardinality([r \in {x \in BagToSet(sent) : x.cmd = t} |-> CopiesIn(r, sent)])

(* C33: when no query fails, every command that the message handler starts *)
(* gets exactly one reply: never more than one at any moment, and in the   *)
(* end one, which is the new score when the evaluation allowed and the     *)
(* quota message when it denied.                                           *)
C33_EveryCommandReplies ==
    /\ [](\A t \in TaskIds :
             /\ ReplyCount(t) <= 1
             /\ \A r \in RepliesTo(t) :
                   r.kind = IF Allowed(t)
                            THEN OperationName(tasks[t].operation)
                            ELSE "limit")
    /\ \A t \in 1 .. MaxTasks :
          (t \in TaskIds) ~> (t \in TaskIds /\ tasks[t].pc = "done"
                                 /\ ReplyCount(t) = 1)

(* Of three commands in flight together two have got the new score and one *)
(* the quota message.                                                      *)
C33_Witness ==
    /\ Len(tasks) = 3
    /\ AllDone
    /\ \A t \in TaskIds : ReplyCount(t) = 1
    /\ \E t \in TaskIds : RepliesTo(t) = {LimitReply(t)}
    /\ Cardinality({t \in TaskIds : Allowed(t)}) = 2

(* C34: a score update that fails after the evaluation has allowed is not  *)
(* compensated and not retried: the step of the failure leaves the record  *)
(* of the user, the scores and the messages as they are and the command    *)
(* allowed and abandoned, and from then on the command never moves and     *)
(* has no reply.                                                           *)
C34_FailedUpdateKeepsUnit ==
    [][\A t \in TaskIds :
         /\ (Allowed(t) /\ ~Faulted(t) /\ "error" \in DOMAIN tasks'[t])
               => /\ tasks[t].pc \in {"upsert", "score_select"}
                  /\ tasks'[t].pc = "failed"
                  /\ Allowed(t)'
                  /\ UNCHANGED <<usertracker, scores, temps, sent>>
         /\ (Allowed(t) /\ Faulted(t))
               => /\ tasks'[t] = tasks[t]
                  /\ \A r \in BagToSet(sent') : r.cmd # t]_vars

(* The upsert of an allowed command was rejected, no score exists, and a   *)
(* later command of the same user was denied: the unit of the failed       *)
(* command counts.                                                         *)
C34_Witness ==
    \E t1, t2 \in TaskIds :
        /\ Allowed(t1) /\ Faulted(t1) /\ tasks[t1].error = "upsert"
        /\ tasks[t2].user = tasks[t1].user
        /\ Denied(t2)
        /\ CountOf(tasks[t1].user) = MAX_OPS
        /\ scores = << >>
        /\ RepliesTo(t1) = {}

====
